---- MODULE Spec2Model ----
(***************************************************************************)
(* uid64: a Snowflake-style 64-bit id generator (src/uid64.go).             *)
(*                                                                         *)
(* One Generator {nodeID, lock, lastTimestamp, sequence}, its two          *)
(* constructors, and NextID called by several threads.  NextID is split    *)
(* where the code blocks or reads the environment: taking the mutex,       *)
(* resolving the node id, sampling the clock, and each re-sample of the    *)
(* sequence-exhaustion spin.  The wall clock is the environment: it ticks  *)
(* forward and may also be set back.                                       *)
(*                                                                         *)
(* Go's int and int64 are 64 bits wide.  A 64-bit word is modelled as the  *)
(* set of the positions of its 1 bits (bit 63 is the sign), so that        *)
(* shifts lose the bits pushed out at the top and | and & act bit by bit.  *)
(* Timestamps stay small and are kept as integers.                         *)
(***************************************************************************)
EXTENDS Integers, Sequences, FiniteSets, TLC

\* ---------------------------------------------------------------- bounds
\* Largest clock reading (ms since the custom epoch).
MaxTime == 1
\* The clock can read as far as this many ms before the custom epoch.
PreEpoch == 2
\* Number of threads calling NextID.
NumThreads == 2
\* NextID calls made in all.
MaxCalls == 3

Threads == 1..NumThreads
\* Smallest clock reading.
MinTime == 0 - PreEpoch

\* ---------------------------------------------------- program constants
unusedBits == 1
epochBits == 41
nodeIDBits == 10
sequenceBits == 12

maxNodeID == 2^nodeIDBits - 1
maxSequence == 2^sequenceBits - 1

\* --------------------------------------------------------- 64-bit words
WordWidth == unusedBits + epochBits + nodeIDBits + sequenceBits

\* The bits of a small non-negative integer n.
Bits(n) == {i \in 0..30 : (n \div (2^i)) % 2 = 1}

\* int64(n) / int(n) for a small integer n, in two's complement.
Int64(n) == IF n >= 0 THEN Bits(n) ELSE (0..(WordWidth - 1)) \ Bits(0 - n - 1)

\* w << k on a 64-bit word: bits pushed past bit 63 are lost.
Shl(w, k) == {i + k : i \in {j \in w : j + k < WordWidth}}

\* w >> k on a signed 64-bit word (arithmetic shift).
Shr(w, k) ==
    {i - k : i \in {j \in w : j >= k}}
        \cup (IF (WordWidth - 1) \in w THEN (WordWidth - k)..(WordWidth - 1) ELSE {})

\* w + 1 on a 64-bit word: the lowest 0 bit becomes 1 and the 1 bits below
\* it become 0; all ones wrap to 0.
Inc(w) ==
    IF w = 0..(WordWidth - 1) THEN {}
    ELSE LET z == CHOOSE i \in 0..(WordWidth - 1) :
                      i \notin w /\ \A j \in 0..(i - 1) : j \in w
         IN  (w \ (0..(z - 1))) \cup {z}

Or(a, b) == a \cup b
And(a, b) == a \cap b

\* The integer a small non-negative word stands for: the sum of 2^i over
\* its bits i <= k.
RECURSIVE ValUpTo(_, _)
ValUpTo(w, k) ==
    IF k < 0 THEN 0 ELSE (IF k \in w THEN 2^k ELSE 0) + ValUpTo(w, k - 1)

Val(w) == ValUpTo(w, 30)

\* Highest bit position of a non-empty set of positions.
Top(s) == CHOOSE i \in s : \A j \in s : j <= i

\* a < b as signed 64-bit integers (two's complement).
Less(a, b) ==
    LET d == (a \ b) \cup (b \ a)
        sign == WordWidth - 1
    IN  /\ d # {}
        /\ IF Top(d) = sign THEN sign \in a ELSE Top(d) \in b

\* ------------------------------------------------------------ the errors
NoError == "nil"
ErrInvalidState == "the system clock is invalid"
ErrOutOfBoundNodeID == "nodeID must be between 0 and 1023"
\* The error net.Interfaces() hands back.
ErrInterfaces == "net.Interfaces failed"

\* -------------------------------------------------------------- inputs
\* Arguments tried for NewWithNodeID.
NodeIDArgs == {-1, 0, 1023, 1024}
\* Values of h.Sum32() tried (the FNV-1a hash of the hardware addresses).
HashSums == {Int64(1024), Int64(4096 + 5)}
\* Values of rand.Int() tried (any non-negative 63-bit integer).
RandInts == {Int64(1024), {51}}

VARIABLES
    now,            \* the wall clock, in ms since the custom epoch
    regressed,      \* history: the clock has been set back at least once
    made,           \* which constructor ran: "none", "New", "NewWithNodeID"
    arg,            \* history: the argument of NewWithNodeID
    madeErr,        \* the error the constructor returned
    nodeID,         \* Generator.nodeID (a word)
    lastTimestamp,  \* Generator.lastTimestamp
    sequence,       \* Generator.sequence (a word)
    lock,           \* Generator.lock: 0 when free, else the holder
    pc,             \* where each thread is inside NextID
    calls,          \* history: how many NextID calls were started
    ret,            \* history: what the last NextID to return returned
    log,            \* history: the successful returns, in order
    errs,           \* history: the errors NextID has returned
    prior,          \* history: ids issued before the first state
    provCalls,      \* history: how often createNodeID was invoked
    provOK,         \* history: how often createNodeID returned a node id
    made2,          \* a second Generator exists
    g2,             \* the fields of the second Generator
    log2,           \* history: the successful returns of the second one
    prior2          \* history: its ids issued before the first state

vars == <<now, regressed, made, arg, madeErr, nodeID, lastTimestamp, sequence,
          lock, pc, calls, ret, log, errs, prior, provCalls, provOK,
          made2, g2, log2, prior2>>

gen == <<nodeID, lastTimestamp, sequence>>
ctor == <<made, arg, madeErr>>
hist == <<log, errs, prior, provCalls, provOK>>
second == <<made2, g2, log2, prior2>>

\* ------------------------------------------------------------ the clock
\* timestamp(): the wall clock in ms, less the custom epoch.
timestamp == now

\* Time passes.
Tick ==
    /\ now < MaxTime
    /\ now' = now + 1
    /\ UNCHANGED <<regressed, ctor, gen, lock, pc, calls, ret, hist, second>>

\* The wall clock is set back (NTP correction, VM migration, a dead clock
\* battery), possibly to before the custom epoch.
Regress ==
    /\ \E v \in MinTime..(now - 1) : now' = v
    /\ regressed' = TRUE
    /\ UNCHANGED <<ctor, gen, lock, pc, calls, ret, hist, second>>

\* ------------------------------------------------------ the constructors
\* New(): lastTimestamp -1, the other fields at their zero values.
New ==
    /\ made = "none"
    /\ made' = "New"
    /\ nodeID' = Int64(0)
    /\ lastTimestamp' = -1
    /\ sequence' = Int64(0)
    /\ UNCHANGED <<now, regressed, arg, madeErr, lock, pc, calls, ret, hist,
                   second>>

\* Mutant of OutOfBound: the upper bound is off by one.
OutOfBound_OffByOne(n) == n < 0 \/ n >= maxNodeID

\* The bounds test of NewWithNodeID.
OutOfBound(n) == n < 0 \/ n > maxNodeID

\* NewWithNodeID(n): (nil, ErrOutOfBoundNodeID) or a generator holding n.
NewWithNodeID(n) ==
    /\ made = "none"
    /\ made' = "NewWithNodeID"
    /\ arg' = n
    /\ IF OutOfBound(n)
       THEN /\ madeErr' = ErrOutOfBoundNodeID
            /\ UNCHANGED gen
       ELSE /\ madeErr' = NoError
            /\ nodeID' = Int64(n)
            /\ lastTimestamp' = -1
            /\ sequence' = Int64(0)
    /\ UNCHANGED <<now, regressed, lock, pc, calls, ret, hist, second>>

\* A *Generator exists: a constructor ran and returned no error.
Built == made # "none" /\ madeErr = NoError

\* ------------------------------------------------------- createNodeID()
\* What createNodeID can return: the error of net.Interfaces(), the hash of
\* the hardware addresses masked to 10 bits, or, when no interface has a
\* hardware address, rand.Int() as it comes.
createNodeID ==
    {[nid |-> Int64(0), err |-> ErrInterfaces]}
        \cup {[nid |-> And(h, Int64(maxNodeID)), err |-> NoError] : h \in HashSums}
        \cup {[nid |-> r, err |-> NoError] : r \in RandInts}

\* ------------------------------------------------------------- NextID()
\* Mutant of NextSequence: the sum is not masked.
NextSequence_NoMask(s) == Inc(s)

\* (g.sequence + 1) & maxSequence
NextSequence(s) == And(Inc(s), Int64(maxSequence))

\* Mutant of Compose: the node id is left out of the id.
Compose_NoNode(ts, nid, seq) ==
    Or(Shl(Int64(ts), nodeIDBits + sequenceBits), seq)

\* currentTimestamp << 22 | int64(nodeID) << 12 | sequence
Compose(ts, nid, seq) ==
    Or(Or(Shl(Int64(ts), nodeIDBits + sequenceBits), Shl(nid, sequenceBits)),
       seq)

\* Mutant of ClockBehind: a sample equal to lastTimestamp fails too.
ClockBehind_OrEqual(cur) == cur <= lastTimestamp

\* The first case of the switch: the clock is behind the last id.
ClockBehind(cur) == cur < lastTimestamp

\* The loop condition of blockWaitToNextMillisecond.
SameMillisecond(cur) == lastTimestamp = cur

\* Mutant of Fail: the error return leaves the mutex locked.
Fail_KeepsLock(t, e) ==
    /\ ret' = [id |-> Int64(0), err |-> e]
    /\ errs' = errs \cup {e}
    /\ lock' = lock
    /\ pc' = [pc EXCEPT ![t] = "idle"]
    /\ UNCHANGED <<log, prior>>

\* return 0, e   (the deferred Unlock runs)
Fail(t, e) ==
    /\ ret' = [id |-> Int64(0), err |-> e]
    /\ errs' = errs \cup {e}
    /\ lock' = 0
    /\ pc' = [pc EXCEPT ![t] = "idle"]
    /\ UNCHANGED <<log, prior>>

\* g.lastTimestamp = cur, compose the id, return id, nil (the deferred
\* Unlock runs).  seq is g.sequence as the switch left it.
Issue(t, cur, seq) ==
    LET id == Compose(cur, nodeID, seq) IN
    /\ lastTimestamp' = cur
    /\ sequence' = seq
    /\ ret' = [id |-> id, err |-> NoError]
    /\ log' = Append(log, [id |-> id, ts |-> cur, node |-> nodeID, seq |-> seq])
    /\ lock' = 0
    /\ pc' = [pc EXCEPT ![t] = "idle"]
    /\ UNCHANGED <<nodeID, errs, prior, provCalls, provOK>>

\* A thread calls NextID on the generator.
Call(t) ==
    /\ Built
    /\ pc[t] = "idle"
    /\ calls < MaxCalls
    /\ calls' = calls + 1
    /\ pc' = [pc EXCEPT ![t] = "lock"]
    /\ UNCHANGED <<now, regressed, ctor, gen, lock, ret, hist, second>>

\* Mutant of Lock: the caller goes on without waiting for the mutex.
Lock_NoMutex(t) ==
    /\ pc[t] = "lock"
    /\ lock' = t
    /\ pc' = [pc EXCEPT ![t] = "resolve"]
    /\ UNCHANGED <<now, regressed, ctor, gen, calls, ret, hist, second>>

\* g.lock.Lock()
Lock(t) ==
    /\ pc[t] = "lock"
    /\ lock = 0
    /\ lock' = t
    /\ pc' = [pc EXCEPT ![t] = "resolve"]
    /\ UNCHANGED <<now, regressed, ctor, gen, calls, ret, hist, second>>

\* Mutant of Resolve: the error of createNodeID is dropped and the call
\* goes on with the node id returned beside it.
Resolve_ErrDropped(t) ==
    /\ pc[t] = "resolve"
    /\ IF nodeID = Int64(0)
       THEN \E r \in createNodeID :
                /\ provCalls' = provCalls + 1
                /\ provOK' = IF r.err # NoError THEN provOK ELSE provOK + 1
                /\ nodeID' = r.nid
                /\ pc' = [pc EXCEPT ![t] = "sample"]
                /\ UNCHANGED <<lastTimestamp, sequence, lock, ret,
                               log, errs, prior>>
       ELSE /\ pc' = [pc EXCEPT ![t] = "sample"]
            /\ UNCHANGED <<gen, lock, ret, hist>>
    /\ UNCHANGED <<now, regressed, ctor, calls, second>>

\* if g.nodeID == 0 { nid, err := createNodeID(); ... g.nodeID = nid }
Resolve(t) ==
    /\ pc[t] = "resolve"
    /\ IF nodeID = Int64(0)
       THEN \E r \in createNodeID :
                /\ provCalls' = provCalls + 1
                /\ IF r.err # NoError
                   THEN /\ Fail(t, r.err)
                        /\ UNCHANGED <<gen, provOK>>
                   ELSE /\ nodeID' = r.nid
                        /\ provOK' = provOK + 1
                        /\ pc' = [pc EXCEPT ![t] = "sample"]
                        /\ UNCHANGED <<lastTimestamp, sequence, lock, ret,
                                       log, errs, prior>>
       ELSE /\ pc' = [pc EXCEPT ![t] = "sample"]
            /\ UNCHANGED <<gen, lock, ret, hist>>
    /\ UNCHANGED <<now, regressed, ctor, calls, second>>

\* currentTimestamp := timestamp() and the switch on it.
Sample(t) ==
    /\ pc[t] = "sample"
    /\ LET cur == timestamp IN
       IF ClockBehind(cur)
       THEN /\ Fail(t, ErrInvalidState)
            /\ UNCHANGED <<gen, provCalls, provOK>>
       ELSE IF cur = lastTimestamp
       THEN IF NextSequence(sequence) = Int64(0)
            THEN \* sequence exhausted: enter blockWaitToNextMillisecond
                 /\ sequence' = NextSequence(sequence)
                 /\ pc' = [pc EXCEPT ![t] = "wait"]
                 /\ UNCHANGED <<nodeID, lastTimestamp, lock, ret, hist>>
            ELSE Issue(t, cur, NextSequence(sequence))
       ELSE Issue(t, cur, Int64(0))
    /\ UNCHANGED <<now, regressed, ctor, calls, second>>

\* One turn of the loop of blockWaitToNextMillisecond: sample the clock
\* again, and leave the loop with the sample once it is another millisecond.
WaitSample(t) ==
    /\ pc[t] = "wait"
    /\ LET cur == timestamp IN
       IF SameMillisecond(cur)
       THEN UNCHANGED <<gen, lock, pc, ret, hist>>
       ELSE Issue(t, cur, sequence)
    /\ UNCHANGED <<now, regressed, ctor, calls, second>>

\* ----------------------------------------------------------- the system
\* The clock reading at which the generator of InitBurst issued its ids.
BurstTime == 0

\* Nothing constructed yet.
InitFresh ==
    /\ now = 0
    /\ made = "none"
    /\ arg = 0
    /\ nodeID = Int64(0)
    /\ lastTimestamp = 0
    /\ sequence = Int64(0)
    /\ prior = [n |-> 0, ts |-> 0, node |-> Int64(0)]

\* A generator built by NewWithNodeID(k) that has since issued 4095 or 4096
\* ids in millisecond BurstTime, which is still the clock's reading: the
\* state 4095 or 4096 NextID calls at one clock reading lead to (each does
\* Call, Lock, Resolve, Sample), entered directly so that the sequence
\* space of a millisecond runs out within MaxCalls calls.  prior stands for
\* the ids of those calls.
InitBurst ==
    /\ now = BurstTime
    /\ made = "NewWithNodeID"
    /\ arg \in {k \in NodeIDArgs : k > 0 /\ ~OutOfBound(k)}
    /\ nodeID = Int64(arg)
    /\ lastTimestamp = BurstTime
    /\ sequence \in {Int64(maxSequence - 1), Int64(maxSequence)}
    /\ prior = [n |-> Val(sequence) + 1, ts |-> BurstTime, node |-> nodeID]

\* The first generator, its callers and the clock.
InitFirst ==
    /\ InitFresh \/ InitBurst
    /\ regressed = FALSE
    /\ madeErr = NoError
    /\ lock = 0
    /\ pc = [t \in Threads |-> "idle"]
    /\ calls = 0
    /\ ret = [id |-> Int64(0), err |-> NoError]
    /\ log = <<>>
    /\ errs = {}
    /\ provCalls = 0
    /\ provOK = 0

\* No second generator.
NoSecond ==
    /\ made2 = FALSE
    /\ g2 = [nodeID |-> Int64(0), lastTimestamp |-> 0, sequence |-> Int64(0)]
    /\ log2 = <<>>
    /\ prior2 = [n |-> 0, ts |-> 0, node |-> Int64(0)]

Init == InitFirst /\ NoSecond

Next ==
    \/ Tick
    \/ Regress
    \/ New
    \/ \E n \in NodeIDArgs : NewWithNodeID(n)
    \/ \E t \in Threads : Call(t)
    \/ \E t \in Threads : Lock(t)
    \/ \E t \in Threads : Resolve(t)
    \/ \E t \in Threads : Sample(t)
    \/ \E t \in Threads : WaitSample(t)

Spec == Init /\ [][Next]_vars

\* The steps of thread t inside NextID.
Step(t) == Lock(t) \/ Resolve(t) \/ Sample(t) \/ WaitSample(t)

\* The fairness of the running program.  Time passes (WF on Tick): this is
\* the assumption that the clock advances.  A thread inside NextID keeps
\* running, and strongly so where its step depends on others: sync.Mutex
\* hands the lock to a waiter that has waited long (its starvation mode), so
\* a waiter for which the lock is free again and again gets it, and the
\* spin of blockWaitToNextMillisecond reads the clock without pause, so a
\* reading the clock takes again and again is sampled.
Fairness ==
    /\ WF_vars(Tick)
    /\ \A t \in Threads : SF_vars(Step(t))

LiveSpec == Init /\ [][Next]_vars /\ Fairness

\* ------------------------------------------------ a second generator
\* Arguments tried for the NewWithNodeID that builds the second generator.
SecondNodeIDArgs == {5, 1023}

\* g2, _ := NewWithNodeID(n), for an n that passes the bounds test.
NewWithNodeID2(n) ==
    /\ made2 = FALSE
    /\ ~OutOfBound(n)
    /\ made2' = TRUE
    /\ g2' = [nodeID |-> Int64(n), lastTimestamp |-> -1, sequence |-> Int64(0)]
    /\ UNCHANGED <<now, regressed, ctor, gen, lock, pc, calls, ret, hist,
                   log2, prior2>>

\* g2.lastTimestamp = cur, compose the id, return id, nil.
Issue2(cur, seq) ==
    /\ g2' = [g2 EXCEPT !.lastTimestamp = cur, !.sequence = seq]
    /\ log2' = Append(log2, [id |-> Compose(cur, g2.nodeID, seq), ts |-> cur,
                             node |-> g2.nodeID, seq |-> seq])

\* g2.NextID(), one whole call.  g2 has its own mutex, so its calls follow
\* one another, and its node id is not 0, so line 64 resolves nothing.  Its
\* clock readings are any at all: cur is the sample of line 72 and nxt the
\* sample that ends the loop of blockWaitToNextMillisecond.
NextID2 ==
    /\ made2
    /\ g2.nodeID # Int64(0)
    /\ calls < MaxCalls
    /\ calls' = calls + 1
    /\ \E cur \in MinTime..MaxTime :
          IF cur < g2.lastTimestamp
          THEN UNCHANGED <<g2, log2>>
          ELSE IF cur = g2.lastTimestamp
          THEN IF NextSequence(g2.sequence) = Int64(0)
               THEN \E nxt \in (MinTime..MaxTime) \ {g2.lastTimestamp} :
                        Issue2(nxt, NextSequence(g2.sequence))
               ELSE Issue2(cur, NextSequence(g2.sequence))
          ELSE Issue2(cur, Int64(0))
    /\ UNCHANGED <<now, regressed, ctor, gen, lock, pc, ret, hist, made2,
                   prior2>>

\* A second generator, built by NewWithNodeID(5), that has issued the 4096
\* ids of millisecond BurstTime: the state 4096 calls of NextID2 at that
\* reading lead to.
InitBurst2 ==
    /\ made2 = TRUE
    /\ g2 = [nodeID |-> Int64(5), lastTimestamp |-> BurstTime,
             sequence |-> Int64(maxSequence)]
    /\ log2 = <<>>
    /\ prior2 = [n |-> maxSequence + 1, ts |-> BurstTime, node |-> g2.nodeID]

Init2 == InitFirst /\ (NoSecond \/ InitBurst2)

Next2 ==
    \/ Next
    \/ \E n \in SecondNodeIDArgs : NewWithNodeID2(n)
    \/ NextID2

\* Two generators in one process.
Spec2 == Init2 /\ [][Next2]_vars

\* ------------------------------------------------- reading the history
\* The last id of the ids issued before the first state.
PriorLast == Compose(prior.ts, prior.node, Int64(prior.n - 1))

\* id is one of the ids issued before the first state: it has their
\* timestamp and node bits and one of their sequence numbers.
InPrior(id) ==
    /\ prior.n > 0
    /\ id \ (0..(sequenceBits - 1)) = Compose(prior.ts, prior.node, Int64(0))
    /\ Val(And(id, Int64(maxSequence))) < prior.n

\* Every id returned is greater than every id returned before it.
StrictlyIncreasing ==
    /\ \A i, j \in 1..Len(log) : i < j => Less(log[i].id, log[j].id)
    /\ prior.n > 0 => \A i \in 1..Len(log) : Less(PriorLast, log[i].id)

\* No id was returned twice.
Distinct ==
    /\ \A i, j \in 1..Len(log) : i < j => log[i].id # log[j].id
    /\ \A i \in 1..Len(log) : ~InPrior(log[i].id)

\* How many ids the generator has issued with timestamp ts.
IssuedAt(ts) ==
    (IF prior.n > 0 /\ prior.ts = ts THEN prior.n ELSE 0)
        + Cardinality({i \in 1..Len(log) : log[i].ts = ts})

\* The step returns an id (a successful NextID).
Returns == Len(log') = Len(log) + 1
Returned == log'[Len(log')]

\* ------------------------------------------------------------ the claims

\* C1: under a clock that never goes back, every id a generator returns is
\* strictly greater than every id it returned before.
C1_MonotonicIds == ~regressed => StrictlyIncreasing

\* C2: under a clock that never goes back (and a node id that resolves),
\* concurrent NextID calls all succeed and their ids are pairwise distinct.
C2_ConcurrentDistinct ==
    (~regressed /\ ErrInterfaces \notin errs) => (errs = {} /\ Distinct)

\* C3: whatever the clock does, a successful NextID returns an id greater
\* than every id returned before and never lowers lastTimestamp.
C3_NeverOutOfOrder ==
    [][Returns =>
        /\ lastTimestamp' >= lastTimestamp
        /\ \A i \in 1..Len(log) : Less(log[i].id, Returned.id)
        /\ prior.n > 0 => Less(PriorLast, Returned.id)]_vars

\* C4: a NextID that samples a timestamp below lastTimestamp fails with
\* ErrInvalidState, returns no id and leaves lastTimestamp and sequence alone.
C4_BehindSampleFails ==
    [][\A t \in Threads :
        (pc[t] \in {"sample", "wait"} /\ pc'[t] # pc[t] /\ timestamp < lastTimestamp)
            => /\ ret' = [id |-> Int64(0), err |-> ErrInvalidState]
               /\ log' = log
               /\ lastTimestamp' = lastTimestamp
               /\ sequence' = sequence]_vars

\* C5: NewWithNodeID(n) fails with ErrOutOfBoundNodeID, giving no generator,
\* exactly when n < 0 or n > 1023; otherwise it gives a generator with
\* nodeID n, lastTimestamp -1 and sequence 0.
C5_NewWithNodeIDBounds ==
    [][(made = "none" /\ made' = "NewWithNodeID") =>
        /\ (madeErr' = ErrOutOfBoundNodeID) <=> (arg' < 0 \/ arg' > 1023)
        /\ madeErr' \in {ErrOutOfBoundNodeID, NoError}
        /\ madeErr' = ErrOutOfBoundNodeID => ~Built' /\ gen' = gen
        /\ madeErr' = NoError =>
            /\ Built'
            /\ Val(nodeID') = arg'
            /\ lastTimestamp' = -1
            /\ sequence' = Int64(0)]_vars

\* C5 witness: NewWithNodeID(1023) has just returned a generator.
C5_Witness ==
    /\ made = "NewWithNodeID" /\ arg = 1023 /\ Built
    /\ lastTimestamp = -1 /\ calls = 0

\* C6: a generator built with an explicit node id n in [0,1023] never
\* invokes createNodeID, and the node-id field of every id it returns is n.
C6_ExplicitNeverResolves ==
    (made = "NewWithNodeID" /\ Built) =>
        /\ provCalls = 0
        /\ \A i \in 1..Len(log) :
            And(Shr(log[i].id, 12), Int64(1023)) = Int64(arg)

\* C7: every id returned decomposes into the generator's state when it was
\* issued: id >> 22 is lastTimestamp, (id >> 12) & 1023 is nodeID and
\* id & 4095 is sequence.
C7_RoundTrip ==
    \A i \in 1..Len(log) :
        /\ Shr(log[i].id, 22) = Int64(log[i].ts)
        /\ And(Shr(log[i].id, 12), Int64(1023)) = log[i].node
        /\ And(log[i].id, Int64(4095)) = log[i].seq

\* C8: in every reachable state 0 <= nodeID <= 1023.
C8_NodeIDInRange == nodeID \subseteq 0..9

\* C9: a generator never issues more than 4096 ids with one timestamp: a
\* call made when sequence 0..4095 of millisecond t are used and the clock
\* reads t returns only after a sample other than t, with that timestamp
\* and sequence 0.
C9_AtMost4096PerMillisecond ==
    [][/\ \A ts \in MinTime..MaxTime : IssuedAt(ts)' <= 4096
       /\ \A t \in Threads :
            /\ (pc[t] = "sample" /\ pc'[t] # "sample" /\ sequence = Int64(4095)
                    /\ timestamp = lastTimestamp)
                => (pc'[t] = "wait" /\ log' = log)
            /\ (pc[t] = "wait" /\ pc'[t] # "wait")
                => /\ Returns
                   /\ timestamp # lastTimestamp
                   /\ Returned.ts = timestamp
                   /\ Returned.seq = Int64(0)]_vars

\* C10: if the clock advances, every NextID call returns and releases the
\* lock; a stall ends only with a sample other than lastTimestamp, and it
\* ends with the lock free.
C10_EveryCallReturns ==
    /\ \A t \in Threads : (pc[t] # "idle") ~> (pc[t] = "idle" /\ lock # t)
    /\ [][\A t \in Threads :
            (pc[t] = "wait" /\ pc'[t] # "wait")
                => (timestamp # lastTimestamp /\ pc'[t] = "idle" /\ lock' = 0)]_vars

\* C10 witness: one caller is in the sequence-exhaustion stall while
\* another waits for the lock.
C10_Witness ==
    \E t, u \in Threads : pc[t] = "wait" /\ pc[u] = "lock"

\* C11: every id returned by a successful NextID whose sampled timestamp
\* lies in [0, 2^41) is non-negative: bit 63, the sign bit, is clear,
\* however the generator obtained its node id.
C11_NonNegativeIds ==
    \A i \in 1..Len(log) :
        log[i].ts >= 0 => (WordWidth - 1) \notin log[i].id

\* The same with the node id inside its 10 bits.
C11_NonNegativeInRange ==
    \A i \in 1..Len(log) :
        (log[i].ts >= 0 /\ log[i].node \subseteq 0..(nodeIDBits - 1))
            => (WordWidth - 1) \notin log[i].id

\* id is one of the ids the second generator issued before the first
\* state.
InPrior2(id) ==
    /\ prior2.n > 0
    /\ id \ (0..(sequenceBits - 1)) = Compose(prior2.ts, prior2.node, Int64(0))
    /\ Val(And(id, Int64(maxSequence))) < prior2.n

\* Both generators exist, with distinct node ids in [1,1023].
DistinctNodeIDs ==
    /\ Built /\ made2
    /\ nodeID # Int64(0) /\ nodeID \subseteq 0..(nodeIDBits - 1)
    /\ g2.nodeID # Int64(0) /\ g2.nodeID \subseteq 0..(nodeIDBits - 1)
    /\ nodeID # g2.nodeID

\* No id of one generator is an id of the other.
NoSharedID ==
    /\ \A i \in 1..Len(log), j \in 1..Len(log2) : log[i].id # log2[j].id
    /\ \A i \in 1..Len(log) : ~InPrior2(log[i].id)
    /\ \A j \in 1..Len(log2) : ~InPrior(log2[j].id)
    /\ (prior.n > 0 /\ prior2.n > 0)
           => Compose(prior.ts, prior.node, Int64(0))
                  # Compose(prior2.ts, prior2.node, Int64(0))

\* A step of a NextID call on the first generator leaves the second one
\* alone, and a NextID call on the second leaves the first one alone.
Independent ==
    /\ (\E t \in Threads : pc'[t] # pc[t]) => UNCHANGED <<g2, log2>>
    /\ (calls' # calls /\ pc' = pc) => UNCHANGED <<gen, lock, log, ret>>

\* C12: two generators with distinct node ids in [1,1023] never return the
\* same id, whatever their clocks read and however their NextID calls
\* interleave, and a NextID call on one leaves the nodeID, lastTimestamp
\* and sequence of the other unchanged.
C12_TwoGenerators ==
    /\ [](DistinctNodeIDs => NoSharedID)
    /\ [][Independent]_vars

\* C12 witness: the two generators have each issued an id with the same
\* timestamp and the same sequence number.
C12_Witness ==
    /\ DistinctNodeIDs
    /\ \E i \in 1..Len(log), j \in 1..Len(log2) :
           log[i].ts = log2[j].ts /\ log[i].seq = log2[j].seq

\* Thread t is inside NextID: past Lock and not yet returned.
Inside(t) == pc[t] \in {"resolve", "sample", "wait"}

\* At most one caller is inside NextID, and it is the holder of the mutex.
OneInside ==
    /\ \A t, u \in Threads : (Inside(t) /\ Inside(u)) => t = u
    /\ \A t \in Threads : Inside(t) <=> lock = t

\* A step that writes a field of the generator or returns from NextID is
\* a step of the one caller inside NextID; no other caller moves in it.
OnlyTheHolderActs ==
    (Built /\ (gen' # gen \/ log' # log \/ ret' # ret \/ errs' # errs))
        => \E t \in Threads :
               /\ Inside(t)
               /\ pc'[t] # pc[t]
               /\ \A u \in Threads \ {t} : pc'[u] = pc[u]

\* C13: NextID calls on one generator exclude one another over the whole
\* operation, the spin-wait on an exhausted sequence included: while one
\* caller is inside, no other caller reads or writes nodeID, lastTimestamp
\* or sequence or returns an id.
C13_MutualExclusion ==
    /\ []OneInside
    /\ [][OnlyTheHolderActs]_vars

\* C13 witness: one caller is in the spin-wait, the clock has moved on, and
\* another caller is waiting for the mutex.
C13_Witness ==
    \E t, u \in Threads :
        pc[t] = "wait" /\ pc[u] = "lock" /\ timestamp # lastTimestamp

\* C14: for a generator built by New(), createNodeID returns a node id at
\* most once in the generator's life, whatever the id (0 included); after
\* that first return nodeID never changes and no later NextID invokes
\* createNodeID again.
C14_ResolvedOnce ==
    /\ [](made = "New" => provOK <= 1)
    /\ [][(made = "New" /\ provOK >= 1)
              => (nodeID' = nodeID /\ provCalls' = provCalls)]_vars

\* What holds instead: once nodeID is not 0 it never changes and
\* createNodeID is not invoked again.
C14_ResolvedOnceNonZero ==
    [][(made = "New" /\ nodeID # Int64(0))
           => (nodeID' = nodeID /\ provCalls' = provCalls)]_vars

\* The step invokes createNodeID and gets an error back.
ResolutionFails == provCalls' = provCalls + 1 /\ provOK' = provOK

\* C15: when the resolution of the node id fails inside NextID, the call
\* returns that error and no id, never comes to sample the clock, leaves
\* nodeID, lastTimestamp and sequence as they were, and releases the lock,
\* so that later calls can proceed.
C15_ResolutionFailure ==
    [][ResolutionFails
           => /\ ret' = [id |-> Int64(0), err |-> ErrInterfaces]
              /\ ErrInterfaces \in errs'
              /\ log' = log
              /\ gen' = gen
              /\ lock' = 0
              /\ \A t \in Threads : pc[t] = "resolve" => pc'[t] = "idle"]_vars

\* C15 witness: the last call to return failed to resolve the node id, and a
\* later caller has taken the lock.
C15_Witness ==
    /\ ret.err = ErrInterfaces
    /\ \E t \in Threads : pc[t] \in {"resolve", "sample"} /\ lock = t

\* The step is a NextID returning ErrInvalidState; its clock sample is
\* timestamp.
InvalidStateReturned ==
    /\ \E t \in Threads : pc[t] = "sample" /\ pc'[t] = "idle"
    /\ ret'.err = ErrInvalidState

\* The generator has issued an id whose timestamp is greater than cur.
IssuedAfter(cur) ==
    \/ prior.n > 0 /\ prior.ts > cur
    \/ \E i \in 1..Len(log) : log[i].ts > cur

\* A generator that has issued no id yet (lastTimestamp is the sentinel).
Fresh == Built /\ Len(log) = 0 /\ prior.n = 0

\* NextID fails with ErrInvalidState only after an id with a greater
\* timestamp was issued, and the first id of a generator has sequence 0 and
\* the sampled timestamp.
FailsOnlyAfterIssue ==
    /\ InvalidStateReturned => IssuedAfter(timestamp)
    /\ (Fresh /\ Returns)
           => (Returned.seq = Int64(0) /\ Returned.ts = timestamp)

\* C16: NextID fails with ErrInvalidState only when the generator has
\* already issued an id whose timestamp is greater than the clock sample;
\* a fresh generator never fails so on its first call, and its first id has
\* sequence 0 and the sampled timestamp.
C16_InvalidStateOnlyAfterIssue == [][FailsOnlyAfterIssue]_vars

\* C16, for clock samples at or after the custom epoch (timestamp >= 0):
\* NextID fails with ErrInvalidState only when the generator has already
\* issued an id whose timestamp is greater than the sample; a fresh
\* generator never fails so, and its first id has sequence 0 and the
\* sampled timestamp.
C16_FromEpochOn == [][timestamp >= 0 => FailsOnlyAfterIssue]_vars

\* C16 witness: NextID has just failed with ErrInvalidState on a sample at
\* or after the custom epoch, behind lastTimestamp.
C16_Witness ==
    /\ ret.err = ErrInvalidState
    /\ timestamp >= 0
    /\ timestamp < lastTimestamp

\* id is greater than every id issued so far.
GreaterThanIssued(id) ==
    /\ \A i \in 1..Len(log) : Less(log[i].id, id)
    /\ prior.n > 0 => Less(PriorLast, id)

\* The step belongs to the first NextID to go on after one that failed with
\* ErrInvalidState (ret still holds that failure, so log holds the ids
\* issued before it): either the call samples the clock and the sample is
\* not behind lastTimestamp, or it leaves the spin-wait such a sample sent
\* it into.
GoesOnAfterInvalidState ==
    /\ ret.err = ErrInvalidState
    /\ \E t \in Threads :
           \/ pc[t] = "sample" /\ pc'[t] # "sample"
                  /\ timestamp >= lastTimestamp
           \/ pc[t] = "wait" /\ pc'[t] # "wait"

\* The step returns an id greater than every id issued before, or sends
\* the call into the spin-wait.
IssuesGreaterOrWaits ==
    \/ \E t \in Threads : pc[t] = "sample" /\ pc'[t] = "wait"
    \/ Returns /\ GreaterThanIssued(Returned.id)

\* C17: after a NextID failed with ErrInvalidState, a later NextID whose
\* clock sample is at or after lastTimestamp succeeds, and its id is
\* strictly greater than every id issued before the failure.
C17_RecoversAfterInvalidState ==
    [][GoesOnAfterInvalidState => IssuesGreaterOrWaits]_vars

\* The same for a node id inside its 10 bits and a lastTimestamp that no
\* spin-wait has set back or sets back in this step.
C17_RecoversInRange ==
    [][(/\ GoesOnAfterInvalidState
        /\ nodeID \subseteq 0..(nodeIDBits - 1)
        /\ \A i \in 1..Len(log) : log[i].ts <= lastTimestamp
        /\ prior.n > 0 => prior.ts <= lastTimestamp
        /\ \A t \in Threads : pc[t] = "wait" => timestamp > lastTimestamp)
           => IssuesGreaterOrWaits]_vars

\* 0 <= sequence <= 4095
SequenceInRange == sequence \subseteq 0..(sequenceBits - 1)

\* The step is a NextID that returns an id for the clock sample it took
\* first; the sample is timestamp.
ReturnsOnFirstSample ==
    /\ \E t \in Threads : pc[t] = "sample" /\ pc'[t] = "idle"
    /\ Returns

\* How a successful NextID leaves sequence and lastTimestamp.
SequenceUpdate ==
    /\ timestamp > lastTimestamp
           => (sequence' = Int64(0) /\ lastTimestamp' = timestamp)
    /\ (timestamp = lastTimestamp /\ Val(sequence) < maxSequence)
           => (Val(sequence') = Val(sequence) + 1
                   /\ lastTimestamp' = lastTimestamp)

\* C18: in every reachable state 0 <= sequence <= 4095, and a successful
\* NextID with sample t sets sequence to 0 and lastTimestamp to t when
\* t > lastTimestamp, and adds 1 to sequence and keeps lastTimestamp when
\* t = lastTimestamp and sequence < 4095.
C18_SequenceRule ==
    /\ []SequenceInRange
    /\ [][ReturnsOnFirstSample => SequenceUpdate]_vars

\* C18 witness: NextID has just raised sequence to 4095 within one
\* millisecond.
C18_Witness ==
    /\ sequence = Int64(maxSequence)
    /\ Len(log) > 0
    /\ log[Len(log)].seq = Int64(maxSequence)
    /\ log[Len(log)].ts = lastTimestamp

====
